---- MODULE Spec2Model ----
(***************************************************************************)
(* Child Speech Depression Detection (src/app.py).                         *)
(*                                                                         *)
(* app.py is a Streamlit script: every interaction with a widget (the file *)
(* uploader, the mood slider, the download button) executes the script     *)
(* again from its first line to its last against the same                  *)
(* st.session_state.  One execution of the script is one step here.        *)
(*                                                                         *)
(* Numbers.  A probability is an integer count of 1e-5 (100000 is 1.0).    *)
(* A percentage is an integer count of hundredths of a percent (10000 is   *)
(* 100.0 %), which is the resolution round(x, 2) leaves.                   *)
(***************************************************************************)
EXTENDS Integers, Sequences, FiniteSets

VARIABLES
  model,          \* the classifier loaded at line 12
  session_state,  \* st.session_state
  uploaded_file,  \* the file selected in the uploader (line 75)
  rating,         \* the value of the mood slider (line 192)
  screen,         \* what the last execution of the script rendered
  calls,          \* the library calls the last execution made, in order
  classified,     \* model.predict invocations since the current upload
  appended,       \* history entries appended since the current upload
  decisions,      \* results displayed since the session began
  runs            \* executions of the script after the page load

vars == <<model, session_state, uploaded_file, rating, screen, calls,
          classified, appended, decisions, runs>>

\* Number of interactions explored in one session.
MaxRuns == 3

\* 100 % in hundredths of a percent (the literal 100 of lines 154 and 157).
HundredPercent == 10000

\* Bounds of the mood slider.
SliderMin == 1
SliderMax == 5

(***************************************************************************)
(* The classifier and the uploaded files                                   *)
(***************************************************************************)

\* The pickled classifier: only the number of classes it was fitted on
\* shapes what predict_proba returns.
Models == {[classes |-> 1], [classes |-> 2], [classes |-> 3]}

\* Raw labels model.predict can return; 2 stands for "anything else".
RawLabels == {0, 1, 2}

\* One row of model.predict_proba for a classifier of n classes.
ProbaRows(n) ==
  IF n = 1 THEN {<<95000>>, <<100000>>}
  ELSE IF n = 2 THEN {<<20000, 80000>>, <<70000, 30000>>, <<66664, 33336>>,
                      <<0, 100000>>}
  ELSE {<<50000, 30000, 20000>>}

NoFile == [audio |-> "none", clf |-> "none", pred |-> 0, proba |-> <<>>]

\* An uploaded .wav file, described by what the libraries do with it:
\*   audio  "undecodable"  librosa.load raises
\*          "no_frame"     librosa.feature.mfcc raises
\*          "valid"        a 13-coefficient vector is extracted
\*   clf    "predict_raises" / "proba_raises"  the classifier raises
\*          "ok"           it answers pred and proba for this file's vector
Files(m) ==
  { [audio |-> a, clf |-> "none", pred |-> 0, proba |-> <<>>] :
      a \in {"undecodable", "no_frame"} }
  \cup
  { [audio |-> "valid", clf |-> c, pred |-> 0, proba |-> <<>>] :
      c \in {"predict_raises", "proba_raises"} }
  \cup
  { [audio |-> "valid", clf |-> "ok", pred |-> l, proba |-> p] :
      l \in RawLabels, p \in ProbaRows(m.classes) }

(***************************************************************************)
(* Pure helpers                                                            *)
(***************************************************************************)

\* round(p * 100, 2) for a probability p in units of 1e-5: the nearest
\* hundredth of a percent, ties to even.
Round2(p) ==
  LET q == p \div 10
      r == p % 10
  IN IF r > 5 \/ (r = 5 /\ q % 2 = 1) THEN q + 1 ELSE q

\* Variant: the first probability is always taken.
ConfidenceScoreFirst(proba) == Round2(proba[1])

\* line 136
ConfidenceScore(proba) ==
  IF Len(proba) > 1 THEN Round2(proba[2]) ELSE Round2(proba[1])

\* line 137
ResultLabel(prediction) ==
  IF prediction = 1 THEN "Depressed" ELSE "Not Depressed"

\* Variant: the operands of the complement are exchanged.
ShownPercentSwapped(prediction, confidence_score) ==
  IF prediction = 1 THEN confidence_score
  ELSE confidence_score - HundredPercent

\* The percentage interpolated into the result box and into the history
\* entry (lines 145, 148, 154, 157).
ShownPercent(prediction, confidence_score) ==
  IF prediction = 1 THEN confidence_score
  ELSE HundredPercent - confidence_score

\* The sentence of the result box (lines 144, 153).
DisplayAdvice(prediction) ==
  IF prediction = 1
  THEN "Please consult a professional if this is a real concern."
  ELSE "The voice sounds healthy and normal."

\* line 90
ReportAdvice(prediction_label) ==
  IF prediction_label = "Depressed"
  THEN "Please consult a professional if this is a real concern."
  ELSE "Voice sounds healthy. Keep monitoring regularly."

\* f"Depressed ({confidence_score}%)" / f"Not Depressed ({100 - confidence_score}%)"
HistoryEntry(prediction, confidence_score) ==
  [label   |-> IF prediction = 1 THEN "Depressed" ELSE "Not Depressed",
   percent |-> ShownPercent(prediction, confidence_score)]

\* st.session_state.history[::-1]
RECURSIVE Reversed(_)
Reversed(s) ==
  IF s = <<>> THEN <<>> ELSE Append(Reversed(Tail(s)), Head(s))

\* lines 194-207
MoodFeedback(r) ==
  IF r = 5 THEN [box |-> "success", effect |-> "balloons"]
  ELSE IF r = 4 THEN [box |-> "info", effect |-> "balloons"]
  ELSE IF r = 3 THEN [box |-> "warning", effect |-> "none"]
  ELSE IF r = 2 THEN [box |-> "error", effect |-> "snow"]
  ELSE [box |-> "error", effect |-> "snow"]

(***************************************************************************)
(* One execution of the script                                             *)
(***************************************************************************)

NoFeatures == "None"
NoDecision == [heading |-> "none", advice |-> "none", percent |-> -1]
NoReport == [label |-> "none", percent |-> -1, advice |-> "none"]
NoFeedback == [box |-> "none", effect |-> "none"]

\* What the page shows when no file is selected: the title and the uploader.
BlankScreen ==
  [audio |-> FALSE, error |-> "none", plots |-> FALSE,
   decision |-> NoDecision, download |-> NoReport, historyShown |-> <<>>,
   teddy |-> "none", slider |-> FALSE, feedback |-> NoFeedback,
   exception |-> "none"]

\* Variant: the history is created on every execution.
InitSessionStateAlways(ss) == [history |-> <<>>]

\* lines 71-72
InitSessionState(ss) ==
  IF "history" \in DOMAIN ss THEN ss ELSE [history |-> <<>>]

\* lines 78-85.  Whatever is raised inside the try block, by the decoder or
\* by the MFCC computation, is caught by the one handler, reported through
\* st.error under the prefix "Audio Error" and turned into (None, None, None).
ExtractFeatures(file) ==
  IF file.audio = "undecodable"
  THEN [features |-> NoFeatures, error |-> "Audio Error",
        calls |-> <<"librosa.load">>]
  ELSE IF file.audio = "no_frame"
  THEN [features |-> NoFeatures, error |-> "Audio Error",
        calls |-> <<"librosa.load", "mfcc">>]
  ELSE [features |-> "mfcc13", error |-> "none",
        calls |-> <<"librosa.load", "mfcc">>]

\* lines 88-106; reportOk is whether the PDF could be written.
GeneratePdfReport(prediction_label, confidence, reportOk) ==
  IF reportOk
  THEN [label |-> prediction_label, percent |-> confidence,
        advice |-> ReportAdvice(prediction_label)]
  ELSE NoReport

\* Variant: the report is built before the result is rendered and recorded.
DecideReportFirst(ss, file, rate, reportOk, done) ==
  LET prediction == file.pred
      confidence_score == ConfidenceScore(file.proba)
      report == GeneratePdfReport(ResultLabel(prediction), confidence_score,
                                  reportOk)
      ss2 == [ss EXCEPT !.history =
                Append(@, HistoryEntry(prediction, confidence_score))]
      plotted == [BlankScreen EXCEPT !.audio = TRUE, !.plots = TRUE]
  IN IF report = NoReport
     THEN [session_state |-> ss,
           screen |-> [plotted EXCEPT !.exception = "generate_pdf_report"],
           calls |-> done \o <<"pdf.output">>]
     ELSE [session_state |-> ss2,
           screen |-> [plotted EXCEPT
                         !.decision =
                            [heading |-> IF prediction = 1
                                         THEN "Depression Detected"
                                         ELSE "No Depression Detected",
                             advice  |-> DisplayAdvice(prediction),
                             percent |-> ShownPercent(prediction,
                                                      confidence_score)],
                         !.download = report,
                         !.historyShown = Reversed(ss2.history),
                         !.teddy = IF prediction = 1 THEN "sad" ELSE "happy",
                         !.slider = TRUE,
                         !.feedback = MoodFeedback(rate)],
           calls |-> done \o <<"pdf.output">>]

\* lines 136-207, reached once predict and predict_proba have answered.
\* The result box is rendered and the history entry appended (139-157)
\* before the report is built (160); an exception of the report ends the
\* execution there, and what was rendered before it stays on the page.
Decide(ss, file, rate, reportOk, done) ==
  LET prediction == file.pred
      confidence_score == ConfidenceScore(file.proba)
      result_label == ResultLabel(prediction)
      decision == [heading |-> IF prediction = 1 THEN "Depression Detected"
                                ELSE "No Depression Detected",
                   advice  |-> DisplayAdvice(prediction),
                   percent |-> ShownPercent(prediction, confidence_score)]
      ss2 == [ss EXCEPT !.history =
                Append(@, HistoryEntry(prediction, confidence_score))]
      report == GeneratePdfReport(result_label, confidence_score, reportOk)
      shown == [BlankScreen EXCEPT !.audio = TRUE, !.plots = TRUE,
                                   !.decision = decision]
  IN IF report = NoReport
     THEN [session_state |-> ss2,
           screen |-> [shown EXCEPT !.exception = "generate_pdf_report"],
           calls |-> done \o <<"pdf.output">>]
     ELSE [session_state |-> ss2,
           screen |-> [shown EXCEPT
                         !.download = report,
                         !.historyShown = Reversed(ss2.history),
                         !.teddy = IF prediction = 1 THEN "sad" ELSE "happy",
                         !.slider = TRUE,
                         !.feedback = MoodFeedback(rate)],
           calls |-> done \o <<"pdf.output">>]

\* Variant: the classifier is called without looking at what the extraction
\* returned; model.predict(None) raises.
PredictionBlockUnguarded(ss, file, rate, reportOk) ==
  LET ef == ExtractFeatures(file)
      plotted == [BlankScreen EXCEPT !.audio = TRUE, !.plots = TRUE]
  IN IF ef.features = NoFeatures \/ file.clf = "predict_raises"
     THEN [session_state |-> ss,
           screen |-> [BlankScreen EXCEPT !.audio = TRUE, !.error = ef.error,
                                          !.exception = "model.predict"],
           calls |-> ef.calls \o <<"predict">>]
     ELSE IF file.clf = "proba_raises"
     THEN [session_state |-> ss,
           screen |-> [plotted EXCEPT !.exception = "model.predict_proba"],
           calls |-> ef.calls \o <<"predict", "predict_proba">>]
     ELSE Decide(ss, file, rate, reportOk,
                 ef.calls \o <<"predict", "predict_proba">>)

\* lines 109-207
PredictionBlock(ss, file, rate, reportOk) ==
  LET ef == ExtractFeatures(file)
      plotted == [BlankScreen EXCEPT !.audio = TRUE, !.plots = TRUE]
  IN IF ef.features = NoFeatures
     THEN [session_state |-> ss,
           screen |-> [BlankScreen EXCEPT !.audio = TRUE, !.error = ef.error],
           calls |-> ef.calls]
     ELSE IF file.clf = "predict_raises"
     THEN [session_state |-> ss,
           screen |-> [plotted EXCEPT !.exception = "model.predict"],
           calls |-> ef.calls \o <<"predict">>]
     ELSE IF file.clf = "proba_raises"
     THEN [session_state |-> ss,
           screen |-> [plotted EXCEPT !.exception = "model.predict_proba"],
           calls |-> ef.calls \o <<"predict", "predict_proba">>]
     ELSE Decide(ss, file, rate, reportOk,
                 ef.calls \o <<"predict", "predict_proba">>)

\* The whole script, lines 1-207.
ScriptRun(ss, file, rate, reportOk) ==
  LET ss1 == InitSessionState(ss)
  IN IF file = NoFile
     THEN [session_state |-> ss1, screen |-> BlankScreen, calls |-> <<>>]
     ELSE PredictionBlock(ss1, file, rate, reportOk)

Count(s, x) == Cardinality({i \in DOMAIN s : s[i] = x})

History == session_state.history

(***************************************************************************)
(* The session                                                             *)
(***************************************************************************)

\* The page has been opened: the script has run once with no file selected.
Init ==
  LET r == ScriptRun(<<>>, NoFile, SliderMin, TRUE)
  IN /\ model \in Models
     /\ session_state = r.session_state
     /\ uploaded_file = NoFile
     /\ rating = SliderMin
     /\ screen = r.screen
     /\ calls = r.calls
     /\ classified = 0
     /\ appended = 0
     /\ decisions = 0
     /\ runs = 0

\* The script is executed with the given widget values.  A slider that is
\* not rendered loses its widget state and starts again from its minimum.
Execute(file, rate, reportOk, newUpload) ==
  LET r == ScriptRun(session_state, file, rate, reportOk)
      grown == Len(r.session_state.history) - Len(History)
  IN /\ runs < MaxRuns
     /\ runs' = runs + 1
     /\ session_state' = r.session_state
     /\ uploaded_file' = file
     /\ screen' = r.screen
     /\ calls' = r.calls
     /\ rating' = IF r.screen.slider THEN rate ELSE SliderMin
     /\ classified' = (IF newUpload THEN 0 ELSE classified)
                        + Count(r.calls, "predict")
     /\ appended' = (IF newUpload THEN 0 ELSE appended) + grown
     /\ decisions' = decisions
                       + (IF r.screen.decision # NoDecision THEN 1 ELSE 0)
     /\ UNCHANGED model

\* A file is chosen in the uploader (line 75).
Upload ==
  \E f \in Files(model), reportOk \in BOOLEAN :
    Execute(f, SliderMin, reportOk, TRUE)

\* The selected file is removed from the uploader.
RemoveFile ==
  /\ uploaded_file # NoFile
  /\ Execute(NoFile, SliderMin, TRUE, TRUE)

\* The mood slider is moved (line 192).
SliderChange ==
  /\ screen.slider
  /\ \E r \in (SliderMin..SliderMax) \ {rating}, reportOk \in BOOLEAN :
       Execute(uploaded_file, r, reportOk, FALSE)

\* The download button is pressed (line 162).
DownloadClick ==
  /\ screen.download # NoReport
  /\ \E reportOk \in BOOLEAN :
       Execute(uploaded_file, rating, reportOk, FALSE)

Next == Upload \/ RemoveFile \/ SliderChange \/ DownloadClick

Spec == Init /\ [][Next]_vars

(***************************************************************************)
(* Properties                                                              *)
(***************************************************************************)

Last(s) == s[Len(s)]
IsPrefix(s, t) == Len(s) <= Len(t) /\ SubSeq(t, 1, Len(s)) = s

\* The last execution classified the selected file and showed the result.
Decided == screen.decision # NoDecision

\* The last execution failed before any result, and why.
Cause ==
  IF uploaded_file.audio = "undecodable" THEN "decode"
  ELSE IF uploaded_file.audio = "no_frame" THEN "extraction"
  ELSE IF uploaded_file.clf \in {"predict_raises", "proba_raises"}
  THEN "classifier"
  ELSE "none"

\* What the page tells about a failure.
Surfaced == [error |-> screen.error, exception |-> screen.exception]

\* C1: with two or more probabilities, the percentage shown and recorded in
\* the history is the rounded index-1 probability for label Depressed and
\* its complement to 100 for label Not Depressed.
C1_TwoClassConfidence ==
  (Decided /\ Len(uploaded_file.proba) >= 2) =>
    LET c == Round2(uploaded_file.proba[2])
        expected == IF uploaded_file.pred = 1 THEN c ELSE HundredPercent - c
    IN /\ screen.decision.percent = expected
       /\ Last(History).percent = expected
       /\ Last(History).label =
            (IF uploaded_file.pred = 1 THEN "Depressed" ELSE "Not Depressed")
       /\ (uploaded_file.proba = <<20000, 80000>> /\ uploaded_file.pred = 1
             => screen.decision.percent = 8000)
       /\ (uploaded_file.proba = <<70000, 30000>> /\ uploaded_file.pred = 0
             => screen.decision.percent = 7000)

C1_Witness ==
  /\ Decided
  /\ uploaded_file.proba = <<70000, 30000>>
  /\ uploaded_file.pred = 0
  /\ Last(History) = [label |-> "Not Depressed", percent |-> 7000]

\* C2: with a single probability, the percentage shown and recorded for the
\* decision is that probability as a percentage, whichever label was
\* predicted ([0.95] with raw label 0 gives Not Depressed, 95.0).
C2_SingleClassConfidence ==
  (Decided /\ Len(uploaded_file.proba) = 1) =>
    /\ screen.decision.percent = Round2(uploaded_file.proba[1])
    /\ Last(History).percent = Round2(uploaded_file.proba[1])

\* C3: the percentage written into the report is the percentage shown with
\* the decision and recorded in the history by the same execution.
C3_ReportMatchesDecision ==
  (Decided /\ screen.download # NoReport) =>
    /\ screen.download.percent = screen.decision.percent
    /\ screen.download.percent = Last(History).percent

\* C4: the advisory text of the report is the advisory text shown with the
\* decision.
C4_AdviceInSync ==
  (Decided /\ screen.download # NoReport) =>
    screen.download.advice = screen.decision.advice

\* C5: an execution whose feature extraction fails calls neither
\* model.predict nor model.predict_proba, appends nothing to the history
\* and builds no report.
C5_ExtractionFailureAborts ==
  [][uploaded_file'.audio \in {"undecodable", "no_frame"} =>
       /\ Count(calls', "predict") = 0
       /\ Count(calls', "predict_proba") = 0
       /\ Count(calls', "pdf.output") = 0
       /\ screen'.download = NoReport
       /\ screen'.exception = "none"
       /\ History' = History]_vars

C5_Witness ==
  /\ uploaded_file.audio = "no_frame"
  /\ screen.error = "Audio Error"
  /\ Len(History) > 0

\* C6: the history holds one entry per decision, in the order of the
\* decisions; a step leaves it as it is or appends one entry, and the
\* newest-first listing is a reversed copy of it.
C6_HistoryAppendOnly ==
  /\ [](Len(History) = decisions)
  /\ [](screen.historyShown # <<>> =>
          /\ Len(screen.historyShown) = Len(History)
          /\ \A i \in 1..Len(History) :
                screen.historyShown[i] = History[Len(History) + 1 - i])
  /\ [][\/ History' = History /\ decisions' = decisions
        \/ /\ Len(History') = Len(History) + 1
           /\ IsPrefix(History, History')
           /\ decisions' = decisions + 1
           /\ Last(History')
                = [label |-> IF uploaded_file'.pred = 1 THEN "Depressed"
                                                        ELSE "Not Depressed",
                   percent |-> screen'.decision.percent]]_vars

C6_Witness ==
  /\ Len(History) >= 2
  /\ History[1] # History[2]
  /\ screen.historyShown # <<>>
  /\ screen.historyShown[1] = Last(History)

\* C7: every percentage shown, recorded in the history or written to the
\* report lies between 0 and 100.
C7_PercentInRange ==
  /\ Decided => screen.decision.percent \in 0..HundredPercent
  /\ screen.download # NoReport
       => screen.download.percent \in 0..HundredPercent
  /\ \A i \in 1..Len(History) : History[i].percent \in 0..HundredPercent

C7_Witness ==
  /\ Decided
  /\ screen.download # NoReport
  /\ uploaded_file.pred # 1
  /\ screen.decision.percent = 0
  /\ screen.download.percent = HundredPercent

\* C8: failures of different kinds (decode, extraction, classifier) are
\* surfaced differently.
C8_FailuresDistinct ==
  [][(Cause # "none" /\ Cause' # "none" /\ Cause' # Cause)
       => Surfaced' # Surfaced]_vars

\* C9: when the report fails after a classification, the result is on the
\* page and its entry is in the history, and the entry stays there.
C9_ReportFailureKeepsDecision ==
  /\ [](screen.exception = "generate_pdf_report" =>
          /\ Decided
          /\ screen.decision.heading =
               (IF uploaded_file.pred = 1 THEN "Depression Detected"
                                          ELSE "No Depression Detected")
          /\ Len(History) > 0
          /\ Last(History).percent = screen.decision.percent
          /\ Last(History).label = ResultLabel(uploaded_file.pred))
  /\ [][screen.exception = "generate_pdf_report"
          => IsPrefix(History, History')]_vars
  /\ [][screen'.exception = "generate_pdf_report"
          => Len(History') = Len(History) + 1]_vars

C9_Witness ==
  /\ screen.exception = "generate_pdf_report"
  /\ Decided
  /\ Len(History) >= 2

\* C10: for one uploaded file the classifier is invoked once and one entry
\* is appended, whatever happens while the file stays selected.
C10_OnePassPerUpload ==
  uploaded_file # NoFile => (classified <= 1 /\ appended <= 1)

====
